---------------------------- MODULE Spec2Model ----------------------------
(***************************************************************************)
(* Batch intake workflow of src/Pipelines/functions:                       *)
(*   v2_registrar_archivo.py  obtener_archivos_nuevos,                     *)
(*                            obtener_archivos_nuevos_version_premium,     *)
(*                            registrar_archivos_en_bq                     *)
(*   tabla_temporal.py        crear_tabla_temporal,                        *)
(*                            cargar_archivos_en_tabla_temporal,           *)
(*                            cargar_archivos_en_tabla_temporal_v_premium, *)
(*                            mover_datos_y_borrar_temp                    *)
(* Object names are sequences of characters, so that str.endswith is       *)
(* computed and not assumed.  Tables are modelled by the number of rows    *)
(* they hold per source object.                                            *)
(***************************************************************************)
EXTENDS Integers, Sequences, FiniteSets, TLC

(* ------------------------------ bounds --------------------------------- *)
\* largest number of objects under the prefix of the bucket
MaxBucket == 3
\* number of runs of the workflow that are explored
MaxCorridas == 2

(* --------------------------- object names ------------------------------ *)
A_JSON    == <<"a", ".", "j", "s", "o", "n">>
B_JSON    == <<"b", ".", "j", "s", "o", "n">>
C_PARQUET == <<"c", ".", "p", "a", "r", "q", "u", "e", "t">>
D_TXT     == <<"d", ".", "t", "x", "t">>
E_PKL     == <<"e", ".", "p", "k", "l">>
FOLDER    == <<"f", "/">>
M_JSON    == <<"m", ".", "j", "s", "o", "n">>
R_JSON    == <<"r", ".", "j", "s", "o", "n">>

\* every object name of the model, in the (lexicographic) order in which
\* list_blobs returns them
Orden == <<A_JSON, B_JSON, C_PARQUET, D_TXT, E_PKL, FOLDER, M_JSON, R_JSON>>

Range(s) == {s[i] : i \in 1..Len(s)}

Nombres == Range(Orden)

\* str.endswith
EndsWith(s, suf) ==
    /\ Len(s) >= Len(suf)
    /\ SubSeq(s, Len(s) - Len(suf) + 1, Len(s)) = suf

SEP         == <<"/">>
SUF_JSON    == <<".", "j", "s", "o", "n">>
SUF_PARQUET == <<".", "p", "a", "r", "q", "u", "e", "t">>
SUF_PKL     == <<".", "p", "k", "l">>

(* --------------------------- object payloads --------------------------- *)
\* What the object store holds under each name:
\*   fmt     "lines"   n JSON objects, one per line
\*           "array"   one JSON array of n objects
\*           "garbage" text that is not JSON
\*           "parquet" a parquet file of n rows
\*           "pickle"  a pickled DataFrame of n rows
\*           "vacio"   zero bytes (a directory marker)
\*   esquema whether the decoded rows fit the schema of the staging table
Blob(o) ==
    CASE o = A_JSON    -> [fmt |-> "lines",   n |-> 2, esquema |-> TRUE]
      [] o = B_JSON    -> [fmt |-> "array",   n |-> 2, esquema |-> TRUE]
      [] o = C_PARQUET -> [fmt |-> "parquet", n |-> 3, esquema |-> TRUE]
      [] o = D_TXT     -> [fmt |-> "lines",   n |-> 1, esquema |-> TRUE]
      [] o = E_PKL     -> [fmt |-> "pickle",  n |-> 1, esquema |-> TRUE]
      [] o = FOLDER    -> [fmt |-> "vacio",   n |-> 0, esquema |-> TRUE]
      [] o = M_JSON    -> [fmt |-> "garbage", n |-> 0, esquema |-> TRUE]
      [] OTHER         -> [fmt |-> "array",   n |-> 1, esquema |-> FALSE]

Vacia == [o \in Nombres |-> 0]

Suma(f, g) == [o \in Nombres |-> f[o] + g[o]]

Total(f) ==
    LET RECURSIVE Acc(_)
        Acc(i) == IF i = 0 THEN 0 ELSE f[Orden[i]] + Acc(i - 1)
    IN  Acc(Len(Orden))

(* ------------------------------ state ---------------------------------- *)
VARIABLES
    bucket,              \* names of the objects under the prefix
    archivos_procesados, \* rows of the ledger table (nombre_archivo), in insertion order
    temp,                \* rows of the staging table, per source object
    temp_existe,         \* whether the staging table exists
    final,               \* rows of the final table, per source object
    pc,                  \* step the current run is at
    variante,            \* loader pair the current run uses: "plain" or "premium"
    archivos_nuevos,     \* list returned by the intake of the current run
    corridas,            \* runs started so far
    procesados_intake,   \* ledger names at the moment of this run's intake
    leidos,              \* names this run's loader downloaded
    cargados,            \* names whose rows this run's loader put in staging
    fallos,              \* service calls that failed during this run
    paso_fallido,        \* step at which the run stopped with an exception
    temp_antes,          \* staging rows when mover_datos_y_borrar_temp was called
    final_antes,         \* final rows when mover_datos_y_borrar_temp was called
    ledger_inicio,       \* ledger rows when the run started
    final_inicio         \* final rows when the run started

vars == <<bucket, archivos_procesados, temp, temp_existe, final, pc, variante,
          archivos_nuevos, corridas, procesados_intake, leidos, cargados,
          fallos, paso_fallido, temp_antes, final_antes, ledger_inicio,
          final_inicio>>

\* listing of the bucket, as list_blobs yields it
Listar(b) == SelectSeq(Orden, LAMBDA o : o \in b)


(* --------------------------- intake filter ----------------------------- *)
\* v2_registrar_archivo.py:32,35  archivos = [blob.name for blob in blobs];
\* archivos_nuevos = [a for a in archivos if a not in archivos_procesados]
FiltrarNuevos_sin_filtro(blobs, procesados) == blobs

FiltrarNuevos(blobs, procesados) ==
    SelectSeq(blobs, LAMBDA a : a \notin procesados)

\* v2_registrar_archivo.py:93,96  the listing drops the names that end in
\* '/' before the same comprehension is applied
FiltrarNuevosPremium_sin_dirs(blobs, procesados) ==
    SelectSeq(blobs, LAMBDA a : a \notin procesados)

FiltrarNuevosPremium(blobs, procesados) ==
    LET archivos == SelectSeq(blobs, LAMBDA a : ~EndsWith(a, SEP))
    IN  SelectSeq(archivos, LAMBDA a : a \notin procesados)

(* -------------------------- per-object loads --------------------------- *)
\* Body of the loop of cargar_archivos_en_tabla_temporal for one object
\* (tabla_temporal.py:57-82).  No suffix is looked at: every name of the
\* list is downloaded as text and given to pd.read_json(lines=True).
\*   - download_as_text of a binary payload raises (not UTF-8);
\*   - read_json raises on text that is not JSON; an array on one line is
\*     read as one record whose columns are the array's positions, which
\*     does not fit the staging schema;
\*   - an empty frame raises ValueError (line 66-67);
\*   - job.error_result raises RuntimeError (line 76-77).
\* Every exception is caught at line 79-82.
ProcesarPlain(o) ==
    LET b == Blob(o)
        texto_ok == b.fmt \notin {"parquet", "pickle"}
        registros == CASE b.fmt = "lines" -> b.n
                       [] b.fmt = "array" -> 1
                       [] OTHER -> 0
        decod_ok == texto_ok /\ b.fmt \in {"lines", "array"}
        carga_ok == decod_ok /\ registros > 0 /\ b.fmt = "lines" /\ b.esquema
    IN  [leido |-> TRUE,
         decodificado |-> decod_ok,
         filas |-> IF carga_ok THEN registros ELSE 0,
         cargado |-> carga_ok,
         error |-> ~carga_ok,
         saltado |-> FALSE]

\* Body of the loop of cargar_archivos_en_tabla_temporal_v_premium for one
\* object (tabla_temporal.py:151-196).
\*   - a name ending in '/' is skipped (153-155);
\*   - .json: json.loads must give a list (162-170): one object per line
\*     is "Extra data" (n > 1), a dict (n = 1) or no JSON at all (n = 0);
\*   - .parquet / .pkl: pandas must be able to read the bytes (172-180);
\*   - any other suffix is skipped (182-184);
\*   - insert_rows_json rejects rows that do not fit the schema, and an
\*     empty request (186-190).
\* Every exception is re-raised at line 194-196.
ProcesarPremium(o) ==
    LET b == Blob(o)
        saltar == EndsWith(o, SEP)
                  \/ ~(EndsWith(o, SUF_JSON) \/ EndsWith(o, SUF_PARQUET)
                       \/ EndsWith(o, SUF_PKL))
        decod_ok == CASE EndsWith(o, SUF_JSON)    -> b.fmt = "array"
                      [] EndsWith(o, SUF_PARQUET) -> b.fmt = "parquet"
                      [] EndsWith(o, SUF_PKL)     -> b.fmt = "pickle"
                      [] OTHER -> FALSE
        carga_ok == decod_ok /\ b.n > 0 /\ b.esquema
    IN  IF saltar
        THEN [leido |-> FALSE, decodificado |-> FALSE, filas |-> 0,
              cargado |-> FALSE, error |-> FALSE, saltado |-> TRUE]
        ELSE [leido |-> TRUE,
              decodificado |-> decod_ok,
              filas |-> IF carga_ok THEN b.n ELSE 0,
              cargado |-> carga_ok,
              error |-> ~carga_ok,
              saltado |-> FALSE]

\* state of a loader while it walks its list
Carga0(t) == [temp |-> t, leidos |-> {}, cargados |-> {}, raised |-> FALSE]

Anotar(acc, o, r) ==
    [temp |-> [acc.temp EXCEPT ![o] = @ + r.filas],
     leidos |-> IF r.leido THEN acc.leidos \cup {o} ELSE acc.leidos,
     cargados |-> IF r.cargado THEN acc.cargados \cup {o} ELSE acc.cargados,
     raised |-> acc.raised]

\* for archivo in archivos: try ... except Exception: print
\* (tabla_temporal.py:56-82): an error ends the object, not the loop
RECURSIVE CargarPlain(_, _, _)
CargarPlain(archivos, i, acc) ==
    IF i > Len(archivos) THEN acc
    ELSE CargarPlain(archivos, i + 1,
                     Anotar(acc, archivos[i], ProcesarPlain(archivos[i])))

\* for archivo in archivos: try ... except Exception: print; raise
\* (tabla_temporal.py:150-196): an error ends the loop and the call
RECURSIVE CargarPremium(_, _, _)
CargarPremium(archivos, i, acc) ==
    IF i > Len(archivos) THEN acc
    ELSE LET o == archivos[i]
             r == ProcesarPremium(o)
             sig == Anotar(acc, o, r)
         IN  IF r.error THEN [sig EXCEPT !.raised = TRUE]
             ELSE CargarPremium(archivos, i + 1, sig)

(* ------------------------- results of the calls ------------------------ *)
\* Outcomes of the warehouse and object-store calls: each one either
\* answers or raises.
ResIntake    == {"ok", "query_error", "list_error"}
ResCrear     == {"ok", "create_error"}
ResMover     == {"ok", "copy_error", "delete_error"}
ResRegistrar == {"ok", "insert_errors", "insert_exception"}

\* obtener_archivos_nuevos (v2_registrar_archivo.py:17-42): the whole body
\* is inside try, and except Exception returns [].
ObtenerRetorno(res, blobs, procesados) ==
    IF res = "ok"
    THEN [ret |-> FiltrarNuevos(blobs, procesados), raised |-> FALSE]
    ELSE [ret |-> << >>, raised |-> FALSE]

\* obtener_archivos_nuevos_version_premium (v2_registrar_archivo.py:80-99):
\* no try, so a failing query or listing raises out of the function.
ObtenerRetornoPremium(res, blobs, procesados) ==
    IF res = "ok"
    THEN [ret |-> FiltrarNuevosPremium(blobs, procesados), raised |-> FALSE]
    ELSE [ret |-> << >>, raised |-> TRUE]

\* mover_datos_y_borrar_temp (tabla_temporal.py:110-122): the INSERT ...
\* SELECT runs first (117); if it raises nothing else happens.  Only then
\* is the staging table deleted (121); delete_table may raise too, after
\* the rows were copied.  A missing staging table makes the query raise.
MoverEfecto_borra_siempre(res, t, existe, f) ==
    IF res = "copy_error" \/ ~existe
    THEN [temp |-> Vacia, existe |-> FALSE, final |-> f, raised |-> TRUE]
    ELSE IF res = "delete_error"
    THEN [temp |-> t, existe |-> existe, final |-> Suma(f, t), raised |-> TRUE]
    ELSE [temp |-> Vacia, existe |-> FALSE, final |-> Suma(f, t), raised |-> FALSE]

MoverEfecto_copia_tras_borrar(res, t, existe, f) ==
    IF res = "copy_error" \/ ~existe
    THEN [temp |-> t, existe |-> existe, final |-> f, raised |-> TRUE]
    ELSE IF res = "delete_error"
    THEN [temp |-> t, existe |-> existe, final |-> Suma(f, t), raised |-> TRUE]
    ELSE [temp |-> Vacia, existe |-> FALSE, final |-> f, raised |-> FALSE]

MoverEfecto(res, t, existe, f) ==
    IF res = "copy_error" \/ ~existe
    THEN [temp |-> t, existe |-> existe, final |-> f, raised |-> TRUE]
    ELSE IF res = "delete_error"
    THEN [temp |-> t, existe |-> existe, final |-> Suma(f, t), raised |-> TRUE]
    ELSE [temp |-> Vacia, existe |-> FALSE, final |-> Suma(f, t), raised |-> FALSE]

\* registrar_archivos_en_bq (v2_registrar_archivo.py:59-73): nothing is
\* sent for an empty list (60); insert_rows_json either stores every row,
\* or returns errors (68-69), or raises (72-73); the function returns None
\* in all three cases.
RegistrarEfecto(res, ledger, nuevos) ==
    IF nuevos # << >> /\ res = "ok"
    THEN [ledger |-> ledger \o nuevos, raised |-> FALSE]
    ELSE [ledger |-> ledger, raised |-> FALSE]

(* ------------------------------ actions -------------------------------- *)
Init ==
    /\ bucket = {}
    /\ archivos_procesados = << >>
    /\ temp = Vacia
    /\ temp_existe = FALSE
    /\ final = Vacia
    /\ pc = "IDLE"
    /\ variante = "plain"
    /\ archivos_nuevos = << >>
    /\ corridas = 0
    /\ procesados_intake = {}
    /\ leidos = {}
    /\ cargados = {}
    /\ fallos = {}
    /\ paso_fallido = "none"
    /\ temp_antes = Vacia
    /\ final_antes = Vacia
    /\ ledger_inicio = << >>
    /\ final_inicio = Vacia

\* The scheduler starts a run with one of the two loader pairs.  A run
\* goes IDLE -> INTAKE -> CREAR -> CARGAR -> MOVER -> REGISTRAR -> IDLE;
\* a step that raises ends the run in FAILED.
IniciarRun ==
    /\ pc \in {"IDLE", "FAILED"}
    /\ corridas < MaxCorridas
    /\ corridas' = corridas + 1
    /\ variante' \in {"plain", "premium"}
    /\ pc' = "INTAKE"
    /\ archivos_nuevos' = << >>
    /\ procesados_intake' = {}
    /\ leidos' = {}
    /\ cargados' = {}
    /\ fallos' = {}
    /\ paso_fallido' = "none"
    /\ temp_antes' = Vacia
    /\ final_antes' = Vacia
    /\ ledger_inicio' = archivos_procesados
    /\ final_inicio' = final
    /\ UNCHANGED <<bucket, archivos_procesados, temp, temp_existe, final>>

\* Between two runs an object is written under the prefix of the bucket.
SubirObjeto ==
    /\ pc \in {"IDLE", "FAILED"}
    /\ Cardinality(bucket) < MaxBucket
    /\ \E o \in Nombres \ bucket : bucket' = bucket \cup {o}
    /\ UNCHANGED <<archivos_procesados, temp, temp_existe, final, pc, variante,
                   archivos_nuevos, corridas, procesados_intake, leidos,
                   cargados, fallos, paso_fallido, temp_antes, final_antes,
                   ledger_inicio, final_inicio>>

obtener_archivos_nuevos ==
    /\ pc = "INTAKE"
    /\ variante = "plain"
    /\ \E res \in ResIntake :
         LET r == ObtenerRetorno(res, Listar(bucket), Range(archivos_procesados))
         IN  /\ archivos_nuevos' = r.ret
             /\ fallos' = IF res = "ok" THEN fallos ELSE fallos \cup {res}
             /\ pc' = IF r.raised THEN "FAILED" ELSE "CREAR"
             /\ paso_fallido' = IF r.raised THEN "intake" ELSE paso_fallido
    /\ procesados_intake' = Range(archivos_procesados)
    /\ UNCHANGED <<bucket, archivos_procesados, temp, temp_existe, final,
                   variante, corridas, leidos, cargados, temp_antes,
                   final_antes, ledger_inicio, final_inicio>>

obtener_archivos_nuevos_version_premium ==
    /\ pc = "INTAKE"
    /\ variante = "premium"
    /\ \E res \in ResIntake :
         LET r == ObtenerRetornoPremium(res, Listar(bucket),
                                        Range(archivos_procesados))
         IN  /\ archivos_nuevos' = r.ret
             /\ fallos' = IF res = "ok" THEN fallos ELSE fallos \cup {res}
             /\ pc' = IF r.raised THEN "FAILED" ELSE "CREAR"
             /\ paso_fallido' = IF r.raised THEN "intake" ELSE paso_fallido
    /\ procesados_intake' = Range(archivos_procesados)
    /\ UNCHANGED <<bucket, archivos_procesados, temp, temp_existe, final,
                   variante, corridas, leidos, cargados, temp_antes,
                   final_antes, ledger_inicio, final_inicio>>

\* crear_tabla_temporal (tabla_temporal.py:29-33): create_table with
\* exists_ok=True leaves an existing table and its rows alone.
crear_tabla_temporal ==
    /\ pc = "CREAR"
    /\ \E res \in ResCrear :
         /\ temp_existe' = IF res = "ok" THEN TRUE ELSE temp_existe
         /\ fallos' = IF res = "ok" THEN fallos ELSE fallos \cup {res}
         /\ pc' = IF res = "ok" THEN "CARGAR" ELSE "FAILED"
         /\ paso_fallido' = IF res = "ok" THEN paso_fallido ELSE "crear"
    /\ UNCHANGED <<bucket, archivos_procesados, temp, final, variante,
                   archivos_nuevos, corridas, procesados_intake, leidos,
                   cargados, temp_antes, final_antes, ledger_inicio,
                   final_inicio>>

\* cargar_archivos_en_tabla_temporal (tabla_temporal.py:50-85): the list
\* check at 53-54 passes for the list the intake returned, an empty one
\* included; the loop never raises.
cargar_archivos_en_tabla_temporal ==
    /\ pc = "CARGAR"
    /\ variante = "plain"
    /\ LET r == CargarPlain(archivos_nuevos, 1, Carga0(temp))
       IN  /\ temp' = r.temp
           /\ leidos' = r.leidos
           /\ cargados' = r.cargados
           /\ pc' = IF r.raised THEN "FAILED" ELSE "MOVER"
           /\ paso_fallido' = IF r.raised THEN "cargar" ELSE paso_fallido
    /\ UNCHANGED <<bucket, archivos_procesados, temp_existe, final, variante,
                   archivos_nuevos, corridas, procesados_intake, fallos,
                   temp_antes, final_antes, ledger_inicio, final_inicio>>

\* cargar_archivos_en_tabla_temporal_v_premium (tabla_temporal.py:133-196):
\* an empty list raises ValueError (143-144) before any object is read.
cargar_archivos_en_tabla_temporal_v_premium ==
    /\ pc = "CARGAR"
    /\ variante = "premium"
    /\ LET r == IF archivos_nuevos = << >>
                THEN [Carga0(temp) EXCEPT !.raised = TRUE]
                ELSE CargarPremium(archivos_nuevos, 1, Carga0(temp))
       IN  /\ temp' = r.temp
           /\ leidos' = r.leidos
           /\ cargados' = r.cargados
           /\ pc' = IF r.raised THEN "FAILED" ELSE "MOVER"
           /\ paso_fallido' = IF r.raised THEN "cargar" ELSE paso_fallido
    /\ UNCHANGED <<bucket, archivos_procesados, temp_existe, final, variante,
                   archivos_nuevos, corridas, procesados_intake, fallos,
                   temp_antes, final_antes, ledger_inicio, final_inicio>>

mover_datos_y_borrar_temp ==
    /\ pc = "MOVER"
    /\ \E res \in ResMover :
         LET r == MoverEfecto(res, temp, temp_existe, final)
         IN  /\ temp' = r.temp
             /\ temp_existe' = r.existe
             /\ final' = r.final
             /\ fallos' = IF res = "ok" THEN fallos ELSE fallos \cup {res}
             /\ pc' = IF r.raised THEN "FAILED" ELSE "REGISTRAR"
             /\ paso_fallido' = IF r.raised THEN "mover" ELSE paso_fallido
    /\ temp_antes' = temp
    /\ final_antes' = final
    /\ UNCHANGED <<bucket, archivos_procesados, variante, archivos_nuevos,
                   corridas, procesados_intake, leidos, cargados,
                   ledger_inicio, final_inicio>>

registrar_archivos_en_bq ==
    /\ pc = "REGISTRAR"
    /\ \E res \in (IF archivos_nuevos = << >> THEN {"ok"} ELSE ResRegistrar) :
         LET r == RegistrarEfecto(res, archivos_procesados, archivos_nuevos)
         IN  /\ archivos_procesados' = r.ledger
             /\ fallos' = IF res = "ok" THEN fallos ELSE fallos \cup {res}
             /\ pc' = IF r.raised THEN "FAILED" ELSE "IDLE"
             /\ paso_fallido' = IF r.raised THEN "registrar" ELSE paso_fallido
    /\ UNCHANGED <<bucket, temp, temp_existe, final, variante, archivos_nuevos,
                   corridas, procesados_intake, leidos, cargados, temp_antes,
                   final_antes, ledger_inicio, final_inicio>>

Next ==
    \/ IniciarRun
    \/ SubirObjeto
    \/ obtener_archivos_nuevos
    \/ obtener_archivos_nuevos_version_premium
    \/ crear_tabla_temporal
    \/ cargar_archivos_en_tabla_temporal
    \/ cargar_archivos_en_tabla_temporal_v_premium
    \/ mover_datos_y_borrar_temp
    \/ registrar_archivos_en_bq

Spec == Init /\ [][Next]_vars

(* The intake alone, on every listing A and every ledger B. *)
InitFiltro ==
    /\ bucket \in SUBSET Nombres
    /\ archivos_procesados \in {Listar(B) : B \in SUBSET Nombres}
    /\ temp = Vacia
    /\ temp_existe = FALSE
    /\ final = Vacia
    /\ pc = "IDLE"
    /\ variante = "plain"
    /\ archivos_nuevos = << >>
    /\ corridas = 0
    /\ procesados_intake = {}
    /\ leidos = {}
    /\ cargados = {}
    /\ fallos = {}
    /\ paso_fallido = "none"
    /\ temp_antes = Vacia
    /\ final_antes = Vacia
    /\ ledger_inicio = << >>
    /\ final_inicio = Vacia

NextFiltro ==
    \/ IniciarRun
    \/ obtener_archivos_nuevos
    \/ obtener_archivos_nuevos_version_premium

SpecFiltro == InitFiltro /\ [][NextFiltro]_vars

(* ------------------------------ claims --------------------------------- *)
\* the loader of the current run has returned or raised
CargaTerminada ==
    \/ pc = "MOVER"
    \/ pc = "FAILED" /\ paso_fallido = "cargar"

\* the object would be staged by the current loader if it were alone
CargaSola(o) ==
    IF variante = "plain" THEN ProcesarPlain(o).cargado
    ELSE ProcesarPremium(o).cargado

Soportado(o) ==
    EndsWith(o, SUF_JSON) \/ EndsWith(o, SUF_PARQUET) \/ EndsWith(o, SUF_PKL)

\* C1: every name in the ledger table has rows in the final table, put
\* there by a promotion that succeeded.  Stated for the names that are
\* files: the directory markers, which hold no rows, are the case of C7.
C1_LedgerSoloPromovidos ==
    \A o \in Range(archivos_procesados) : ~EndsWith(o, SEP) => final[o] > 0

\* C2: a name that was in the ledger when the run did its intake is not in
\* the list the intake returned, and the loader of that run neither
\* downloads it nor stages rows of it, whatever the outcome of the query
\* and of the listing.
C2_NoReingesta ==
    /\ Range(archivos_nuevos) \cap procesados_intake = {}
    /\ leidos \cap procesados_intake = {}
    /\ cargados \cap procesados_intake = {}

C2_Witness ==
    /\ pc = "MOVER"
    /\ procesados_intake \cap bucket # {}
    /\ leidos # {}

\* C3 (as stated): after an intake whose query and listing answered, the
\* returned names are exactly the listed names that are not in the ledger.
C3_Original ==
    (pc = "CREAR" /\ fallos = {}) =>
        /\ Range(archivos_nuevos) = bucket \ procesados_intake
        /\ Range(archivos_nuevos) \cap procesados_intake = {}

\* C3 (amended): after an intake whose query and listing answered, the
\* plain intake returns exactly the listed names that are not in the
\* ledger, the premium intake exactly those of them whose last character
\* is not '/'; each name once, and none of them is in the ledger.
C3_FiltroExacto ==
    (pc = "CREAR" /\ fallos = {}) =>
        /\ Range(archivos_nuevos) =
             IF variante = "plain"
             THEN bucket \ procesados_intake
             ELSE {a \in bucket \ procesados_intake : a[Len(a)] # "/"}
        /\ Len(archivos_nuevos) = Cardinality(Range(archivos_nuevos))
        /\ Range(archivos_nuevos) \cap procesados_intake = {}

C3_Witness ==
    /\ pc = "CREAR"
    /\ fallos = {}
    /\ variante = "premium"
    /\ FOLDER \in bucket \ procesados_intake
    /\ bucket \cap procesados_intake # {}
    /\ archivos_nuevos # << >>

\* C4: when the promotion raises because the copy failed, the staging
\* table still exists and holds exactly the rows it held at the call.
C4_CopiaFallidaConservaTemp ==
    (pc = "FAILED" /\ paso_fallido = "mover" /\ "copy_error" \in fallos) =>
        /\ temp_existe
        /\ temp = temp_antes
        /\ final = final_antes

C4_Witness ==
    /\ pc = "FAILED"
    /\ paso_fallido = "mover"
    /\ "copy_error" \in fallos
    /\ Total(temp_antes) > 0

\* C5: when the promotion returns, the staging table is gone and empty,
\* and the final table gained exactly the rows staging held at the call.
C5_PromocionCompleta ==
    pc = "REGISTRAR" =>
        /\ ~temp_existe
        /\ temp = Vacia
        /\ \A o \in Nombres : final[o] = final_antes[o] + temp_antes[o]
        /\ Total(final) = Total(final_antes) + Total(temp_antes)

C5_Witness ==
    /\ pc = "REGISTRAR"
    /\ Total(temp_antes) > 0
    /\ Total(final_antes) > 0

\* C6: a run that is not the first, that finds every object of the bucket
\* in the ledger and in which no service call fails, does not fail, leaves
\* the ledger as it was and leaves the final table as it was.  Stated for
\* buckets of files, without directory markers (the case of C7).
C6_RerunSinNuevos ==
    (/\ corridas >= 2
     /\ pc \notin {"INTAKE"}
     /\ bucket # {}
     /\ \A o \in bucket : ~EndsWith(o, SEP)
     /\ bucket \subseteq procesados_intake
     /\ fallos = {}) =>
        /\ pc # "FAILED"
        /\ archivos_procesados = ledger_inicio
        /\ final = final_inicio

\* C7: no name ending in '/' is in the list the intake returned, and none
\* is downloaded by a loader.
C7_SinDirectorios ==
    \A o \in Range(archivos_nuevos) \cup leidos : ~EndsWith(o, SEP)

\* C8: when a loader is done, every object of its list that loads when it
\* is alone has its rows in staging, whatever happened to the others.
C8_AislamientoDeFallos ==
    CargaTerminada =>
        \A o \in Range(archivos_nuevos) : CargaSola(o) => o \in cargados

\* C9: a run in which a service call failed (ledger query, listing, table
\* creation, copy, delete, ledger insert) is in FAILED: it did not go on to
\* a later step and did not complete.
C9_FalloEsTerminal ==
    fallos # {} => pc = "FAILED"

\* C10: when a loader is done, no object of its list whose name has none of
\* the suffixes .json, .parquet, .pkl was downloaded or has rows in staging.
\* Stated for the names that are files (directory markers are the case of
\* C7).
C10_SinSufijoSeSalta ==
    CargaTerminada =>
        \A o \in Range(archivos_nuevos) :
            (~Soportado(o) /\ ~EndsWith(o, SEP)) =>
                o \notin leidos /\ o \notin cargados

=============================================================================
